---- MODULE Spec2Model ----
(***************************************************************************)
(* Model of the Splat derive macro (src/src/lib.rs): derive_splat and      *)
(* get_shared_type, run by the host compiler once per annotated            *)
(* declaration.  One invocation is a sequence of steps: the match on       *)
(* input.data, the match on data_struct.fields, get_shared_type (the first *)
(* next() and the for_each scan), and the quote! of the impl block.        *)
(***************************************************************************)
EXTENDS Integers, Sequences, FiniteSets, TLC

\* ------------------------------------------------------------------ bounds

\* Largest number of fields of a declaration the host hands to the macro.
MaxFields == 3

\* Identifiers of the declarations (DeriveInput.ident).
StructNames == {"Point", "Pair"}

\* Field identifiers (Field.ident of a named field).
Idents == {"x", "y", "z"}

\* Field types as written (Field.ty).  "i32" and "core::primitive::i32" are
\* two spellings of one type; "String" is another type.
Types == {"i32", "core::primitive::i32", "String"}

\* Values handed to a generated splat.
Values == {7, 250}

\* Option<Ident>::None, the ident of a field of a tuple struct.
NoIdent == "None"

\* ------------------------------------------------------------ declarations

Range(s) == {s[i] : i \in 1..Len(s)}

SeqsUpTo(S, n) == UNION {[1..k -> S] : k \in 0..n}

Injective(s) == \A i, j \in 1..Len(s) : i # j => s[i] # s[j]

\* fields_named.named: every field has an identifier, no two the same.
NamedFieldSeqs ==
    {fs \in SeqsUpTo([ident : Idents, ty : Types], MaxFields) :
        Injective([i \in 1..Len(fs) |-> fs[i].ident])}

\* fields_unnamed.unnamed: no field has an identifier.
UnnamedFieldSeqs == SeqsUpTo([ident : {NoIdent}, ty : Types], MaxFields)

\* DeriveInput: ident and data; for Data::Struct the variant of Fields and
\* its fields.  A union (Data::Union) has named fields; the variants of an
\* enum are not fields.
StructInputs ==
    [ident : StructNames, data : {"Struct"}, shape : {"Named"}, fields : NamedFieldSeqs]
    \cup [ident : StructNames, data : {"Struct"}, shape : {"Unnamed"}, fields : UnnamedFieldSeqs]
    \cup [ident : StructNames, data : {"Struct"}, shape : {"Unit"}, fields : {<<>>}]

OtherInputs ==
    [ident : StructNames, data : {"Enum"}, shape : {"Variants"}, fields : {<<>>}]
    \cup [ident : StructNames, data : {"Union"}, shape : {"Named"},
          fields : NamedFieldSeqs \ {<<>>}]

DeriveInputs == StructInputs \cup OtherInputs

\* Between two expansions the macro holds no declaration.
NoItem == [ident |-> "", data |-> "None", shape |-> "", fields |-> <<>>]

\* ------------------------------------------------------ panic messages

MsgNotStruct == "Splat can only be derived by structs"
MsgUnit == "Splat cannot be derived by unit structs"
MsgNoFields == "Splat cannot be derived by structs with no fields"
MsgNotSameType == "Splat can only be derived by structs where each field is the same type"

\* panic!(literal): the payload is the literal, with no format arguments.
Panic(msg) == <<[msg |-> msg, args |-> <<>>]>>

\* --------------------------------------------------------------- tokens

\* ToTokens of Option<Ident>: the identifier, or nothing for None.
IdentTokens(opt) == IF opt = NoIdent THEN <<>> ELSE <<opt>>

\* The tokens `v.clone()`.
CloneV == <<"v", ".", "clone", "(", ")">>

\* Mutant: the iterator get_shared_type advanced with next() is the one
\* quoted, so the first field is missing from the body.
NamedElemsAfterNext(fields) ==
    [i \in 1..(Len(fields) - 1) |-> IdentTokens(fields[i + 1].ident) \o <<":">> \o CloneV]

\* Mutant: the fields are quoted in reverse order.
NamedElemsReversed(fields) ==
    [i \in 1..Len(fields) |->
        IdentTokens(fields[Len(fields) + 1 - i].ident) \o <<":">> \o CloneV]

\* #(#field_idents: v.clone()),*  one `ident: v.clone()` per field, in the
\* order of the iterator.
NamedElems(fields) ==
    [i \in 1..Len(fields) |-> IdentTokens(fields[i].ident) \o <<":">> \o CloneV]

\* Mutant: the repetition is lost, a single `v.clone()` is emitted.
UnnamedElemsOnce(fields) ==
    [i \in 1..(IF Len(fields) = 0 THEN 0 ELSE 1) |-> IdentTokens(fields[i].ident) \o CloneV]

\* #(#field_idents v.clone()),*  one `v.clone()` per field, preceded by the
\* tokens of the field's (absent) identifier.
UnnamedElems(fields) ==
    [i \in 1..Len(fields) |-> IdentTokens(fields[i].ident) \o CloneV]

\* Mutant: the parameter is taken by reference.
SplatImplByRef(name, ty, delim, elems) ==
    [impl_for |-> name,
     fns |-> <<[fn_name |-> "splat",
                params |-> <<[name |-> "v", ty |-> <<"&", ty>>]>>,
                ret |-> "Self",
                body |-> [ctor |-> "Self", delim |-> delim, elems |-> elems]]>>]

\* impl #struct_name { fn splat(v: #shared_type) -> Self { <body> } }
SplatImpl(name, ty, delim, elems) ==
    [impl_for |-> name,
     fns |-> <<[fn_name |-> "splat",
                params |-> <<[name |-> "v", ty |-> <<ty>>]>>,
                ret |-> "Self",
                body |-> [ctor |-> "Self", delim |-> delim, elems |-> elems]]>>]

\* The type a written type expression denotes once the host resolves paths.
Resolve(t) == IF t = "core::primitive::i32" THEN "i32" ELSE t

\* Mutant: the types are compared after resolution.
TypeEqResolved(a, b) == Resolve(a) = Resolve(b)

\* field.ty != shared_type: syn's PartialEq on Type, equality of the type
\* expressions as written.
TypeEq(a, b) == a = b

\* ---------------------------------------------------------------- state

VARIABLES
    item,         \* the declaration the host handed to this invocation
    pc,           \* position of the invocation in derive_splat, "idle" between two
    struct_name,  \* input.ident once bound, "" before
    classified,   \* the variant the matches selected, "" before
    iter,         \* number of fields the iterator `fields` has yielded
    shared_type,  \* get_shared_type's shared_type, "" before
    compared,     \* the comparisons for_each has made, in order
    stages,       \* the stages entered by this invocation, in order
    output,       \* <<fragment>> once returned, <<>> otherwise
    panic,        \* <<payload>> once panicked, <<>> otherwise
    memo          \* <<[item, outcome]>> of an earlier invocation, or <<>>

vars == <<item, pc, struct_name, classified, iter, shared_type, compared,
          stages, output, panic, memo>>

Init ==
    /\ item = NoItem
    /\ pc = "idle"
    /\ struct_name = ""
    /\ classified = ""
    /\ iter = 0
    /\ shared_type = ""
    /\ compared = <<>>
    /\ stages = <<>>
    /\ output = <<>>
    /\ panic = <<>>
    /\ memo = <<>>

Terminal == pc \in {"returned", "panicked"}

\* What an invocation hands back to the host.
Outcome == [classified |-> classified, output |-> output, panic |-> panic]

\* ---------------------------------------------------------------- steps

\* The host expands #[derive(Splat)] on a declaration:
\* parse_macro_input!(item as DeriveInput)
Invoke ==
    /\ pc = "idle"
    /\ \E d \in DeriveInputs : item' = d
    /\ pc' = "match_data"
    /\ UNCHANGED <<struct_name, classified, iter, shared_type, compared, stages,
                   output, panic, memo>>

\* Mutant: a union, which has named fields too, is let through as a struct.
MatchDataUnionAsStruct ==
    /\ pc = "match_data"
    /\ stages' = Append(stages, "classifier")
    /\ IF item.data \in {"Struct", "Union"}
         THEN /\ pc' = "match_fields"
              /\ struct_name' = item.ident
              /\ UNCHANGED <<classified, panic>>
         ELSE /\ pc' = "panicked"
              /\ classified' = "NotStruct"
              /\ panic' = Panic(MsgNotStruct)
              /\ UNCHANGED struct_name
    /\ UNCHANGED <<item, iter, shared_type, compared, output, memo>>

\* match input.data { Data::Struct(..) => .., _ => panic!(..) }; struct_name
MatchData ==
    /\ pc = "match_data"
    /\ stages' = Append(stages, "classifier")
    /\ IF item.data = "Struct"
         THEN /\ pc' = "match_fields"
              /\ struct_name' = item.ident
              /\ UNCHANGED <<classified, panic>>
         ELSE /\ pc' = "panicked"
              /\ classified' = "NotStruct"
              /\ panic' = Panic(MsgNotStruct)
              /\ UNCHANGED struct_name
    /\ UNCHANGED <<item, iter, shared_type, compared, output, memo>>

\* match data_struct.fields { Named, Unnamed => get_shared_type(..), Unit => panic }
MatchFields ==
    /\ pc = "match_fields"
    /\ classified' = item.shape
    /\ IF item.shape \in {"Named", "Unnamed"}
         THEN /\ pc' = "first_field"
              /\ UNCHANGED panic
         ELSE /\ pc' = "panicked"
              /\ panic' = Panic(MsgUnit)
    /\ UNCHANGED <<item, struct_name, iter, shared_type, compared, stages, output, memo>>

\* Mutant: the None arm panics with the message of the type mismatch.
FirstFieldNoneAsMismatch ==
    /\ pc = "first_field"
    /\ stages' = Append(stages, "checker")
    /\ IF Len(item.fields) = 0
         THEN /\ pc' = "panicked"
              /\ panic' = Panic(MsgNotSameType)
              /\ UNCHANGED <<iter, shared_type>>
         ELSE /\ pc' = "for_each"
              /\ iter' = 1
              /\ shared_type' = item.fields[1].ty
              /\ UNCHANGED panic
    /\ UNCHANGED <<item, struct_name, classified, compared, output, memo>>

\* get_shared_type: match fields.next() { Some(first) => first.ty, None => panic }
FirstField ==
    /\ pc = "first_field"
    /\ stages' = Append(stages, "checker")
    /\ IF Len(item.fields) = 0
         THEN /\ pc' = "panicked"
              /\ panic' = Panic(MsgNoFields)
              /\ UNCHANGED <<iter, shared_type>>
         ELSE /\ pc' = "for_each"
              /\ iter' = 1
              /\ shared_type' = item.fields[1].ty
              /\ UNCHANGED panic
    /\ UNCHANGED <<item, struct_name, classified, compared, output, memo>>

\* Mutant: a mismatch is noted and the scan goes on; the panic is raised
\* once the iterator is exhausted.
CompareFieldNoShortCircuit ==
    /\ pc = "for_each"
    /\ iter < Len(item.fields)
    /\ iter' = iter + 1
    /\ compared' = Append(compared, [field |-> iter + 1, against |-> shared_type])
    /\ panic' = IF TypeEq(item.fields[iter + 1].ty, shared_type)
                  THEN panic ELSE Panic(MsgNotSameType)
    /\ pc' = IF iter + 1 = Len(item.fields) /\ panic' # <<>> THEN "panicked" ELSE pc
    /\ UNCHANGED <<item, struct_name, classified, shared_type, stages, output, memo>>

\* get_shared_type: one call of the for_each closure, on the next field
CompareField ==
    /\ pc = "for_each"
    /\ iter < Len(item.fields)
    /\ iter' = iter + 1
    /\ compared' = Append(compared, [field |-> iter + 1, against |-> shared_type])
    /\ IF TypeEq(item.fields[iter + 1].ty, shared_type)
         THEN UNCHANGED <<pc, panic>>
         ELSE /\ pc' = "panicked"
              /\ panic' = Panic(MsgNotSameType)
    /\ UNCHANGED <<item, struct_name, classified, shared_type, stages, output, memo>>

\* get_shared_type: the iterator is exhausted, shared_type is returned
ReturnSharedType ==
    /\ pc = "for_each"
    /\ iter = Len(item.fields)
    /\ pc' = "quote"
    /\ UNCHANGED <<item, struct_name, classified, iter, shared_type, compared,
                   stages, output, panic, memo>>

\* Fields::Named arm: quote!(impl .. { Self { #(#field_idents: v.clone()),* } })
QuoteNamed ==
    /\ pc = "quote"
    /\ classified = "Named"
    /\ stages' = Append(stages, "synthesizer")
    /\ output' = <<SplatImpl(struct_name, shared_type, "{}", NamedElems(item.fields))>>
    /\ pc' = "returned"
    /\ UNCHANGED <<item, struct_name, classified, iter, shared_type, compared, panic, memo>>

\* Fields::Unnamed arm: quote!(impl .. { Self(#(#field_idents v.clone()),*) })
QuoteUnnamed ==
    /\ pc = "quote"
    /\ classified = "Unnamed"
    /\ stages' = Append(stages, "synthesizer")
    /\ output' = <<SplatImpl(struct_name, shared_type, "()", UnnamedElems(item.fields))>>
    /\ pc' = "returned"
    /\ UNCHANGED <<item, struct_name, classified, iter, shared_type, compared, panic, memo>>

\* Mutant: the fragment is kept in a buffer that outlives the invocation.
DroppedKeepsOutput ==
    /\ item' = NoItem
    /\ pc' = "idle"
    /\ struct_name' = ""
    /\ classified' = ""
    /\ iter' = 0
    /\ shared_type' = ""
    /\ compared' = <<>>
    /\ stages' = <<>>
    /\ output' = output
    /\ panic' = <<>>

\* The locals of an invocation are dropped when it ends.
Dropped ==
    /\ item' = NoItem
    /\ pc' = "idle"
    /\ struct_name' = ""
    /\ classified' = ""
    /\ iter' = 0
    /\ shared_type' = ""
    /\ compared' = <<>>
    /\ stages' = <<>>
    /\ output' = <<>>
    /\ panic' = <<>>

\* The host hands the fragment (or the panic) on and the invocation ends.
Finish ==
    /\ Terminal
    /\ Dropped
    /\ UNCHANGED memo

\* As Finish, with the observer noting what the invocation handed back; memo
\* is the observer's, the macro has no access to it.
FinishRemembered ==
    /\ Terminal
    /\ memo = <<>>
    /\ memo' = <<[item |-> item, outcome |-> Outcome]>>
    /\ Dropped

Step ==
    \/ Invoke
    \/ MatchData
    \/ MatchFields
    \/ FirstField
    \/ CompareField
    \/ ReturnSharedType
    \/ QuoteNamed
    \/ QuoteUnnamed

Next == Step \/ Finish

Spec == Init /\ [][Next]_vars

NextRepeat == Step \/ Finish \/ FinishRemembered

SpecRepeat == Init /\ [][NextRepeat]_vars

\* ------------------------------------------------- the generated splat

\* The fragment and its constructor body, once returned.
Fragment == output[1]

Body == Fragment.fns[1].body

\* The label of an element of the body: `ident` of `ident: expr`, or nothing.
LabelOf(elem) ==
    IF Len(elem) >= 2 /\ elem[2] = ":" THEN <<elem[1]>> ELSE <<>>

\* The expression of an element of the body.
ExprOf(elem) ==
    IF Len(elem) >= 2 /\ elem[2] = ":" THEN SubSeq(elem, 3, Len(elem)) ELSE elem

\* Value of an expression of the body with v bound to x: `v.clone()` is a
\* clone of x, anything else does not compile.
EvalExpr(e, x) == IF e = CloneV THEN <<"clone", x>> ELSE <<"error">>

\* R::splat(x): the instance the body constructs, element by element.
SplatCall(body, x) ==
    [i \in 1..Len(body.elems) |->
        [label |-> LabelOf(body.elems[i]), value |-> EvalExpr(ExprOf(body.elems[i]), x)]]

\* ---------------------------------------------------------------- claims

NumFields == Len(item.fields)

AllSameType(d) == \A i \in 1..Len(d.fields) : d.fields[i].ty = d.fields[1].ty

\* A declaration the macro is documented to accept: a struct with named or
\* unnamed fields, at least one, all of the type written for the first.
Valid(d) ==
    /\ d.data = "Struct"
    /\ d.shape \in {"Named", "Unnamed"}
    /\ Len(d.fields) >= 1
    /\ AllSameType(d)

\* C1: for a struct with n >= 1 named fields, all of one written type, the
\* invocation ends by returning a fragment whose body is a braced
\* construction with exactly n elements, the i-th being
\* `<ident of field i>: v.clone()`, so every field is assigned once and
\* R::splat(x) holds a clone of x in every field.
C1_NamedSplat ==
    (Terminal /\ Valid(item) /\ item.shape = "Named") =>
        /\ pc = "returned"
        /\ Len(output) = 1
        /\ Body.ctor = "Self"
        /\ Body.delim = "{}"
        /\ Len(Body.elems) = NumFields
        /\ \A i \in 1..NumFields :
              Body.elems[i] = <<item.fields[i].ident, ":">> \o CloneV
        /\ \A f \in 1..NumFields :
              Cardinality({i \in 1..Len(Body.elems) :
                  LabelOf(Body.elems[i]) = <<item.fields[f].ident>>}) = 1
        /\ \A x \in Values : \A i \in 1..NumFields :
              SplatCall(Body, x)[i] =
                  [label |-> <<item.fields[i].ident>>, value |-> <<"clone", x>>]

C1_Witness ==
    /\ pc = "returned"
    /\ item.shape = "Named"
    /\ NumFields = 3
    /\ item.fields[1].ident = "z"
    /\ item.fields[2].ident = "x"
    /\ SplatCall(Body, 7)[3] = [label |-> <<"y">>, value |-> <<"clone", 7>>]

\* C2: for a tuple struct with N >= 1 fields, all of one written type, the
\* invocation ends by returning a fragment whose body is a parenthesised
\* construction with exactly N elements, each `v.clone()` with no
\* identifier, so every component of R::splat(x) is a clone of x.
C2_PositionalSplat ==
    (Terminal /\ Valid(item) /\ item.shape = "Unnamed") =>
        /\ pc = "returned"
        /\ Len(output) = 1
        /\ Body.ctor = "Self"
        /\ Body.delim = "()"
        /\ Len(Body.elems) = NumFields
        /\ \A i \in 1..NumFields : Body.elems[i] = CloneV
        /\ \A x \in Values : \A i \in 1..NumFields :
              SplatCall(Body, x)[i] = [label |-> <<>>, value |-> <<"clone", x>>]

C2_Witness ==
    /\ pc = "returned"
    /\ item.shape = "Unnamed"
    /\ NumFields = 3
    /\ Len(Body.elems) = 3
    /\ SplatCall(Body, 250)[3] = [label |-> <<>>, value |-> <<"clone", 250>>]

\* C3: a fragment is returned exactly for the valid declarations (types
\* compared as written): an invocation that has ended returned a fragment if
\* and only if its declaration is valid, and otherwise panicked; no state of
\* an invocation on any other declaration holds a fragment.
C3_SuccessIffValid ==
    /\ Terminal => (pc = "returned" <=> Valid(item))
    /\ Terminal => (pc = "panicked" <=> ~Valid(item))
    /\ pc = "returned" => Len(output) = 1 /\ panic = <<>>
    /\ (pc # "idle" /\ ~Valid(item)) => output = <<>>

\* Two spellings of one type are rejected as different types.
C3_Witness ==
    /\ pc = "panicked"
    /\ item.data = "Struct"
    /\ NumFields = 2
    /\ item.fields[1].ty # item.fields[2].ty
    /\ Resolve(item.fields[1].ty) = Resolve(item.fields[2].ty)
    /\ panic[1].msg = MsgNotSameType
    /\ output = <<>>

\* C4: in every returned fragment the body has as many elements as the
\* declaration has fields, and the N-th element is the one of the N-th
\* field: for named fields it is labelled with the N-th field's identifier,
\* for unnamed fields it is the N-th unlabelled component.
C4_OrderPreserved ==
    pc = "returned" =>
        /\ Len(Body.elems) = NumFields
        /\ \A n \in 1..NumFields :
              /\ LabelOf(Body.elems[n]) = IdentTokens(item.fields[n].ident)
              /\ ExprOf(Body.elems[n]) = CloneV

C4_Witness ==
    /\ pc = "returned"
    /\ item.shape = "Named"
    /\ NumFields = 3
    /\ <<item.fields[1].ident, item.fields[2].ident, item.fields[3].ident>> = <<"y", "z", "x">>
    /\ <<LabelOf(Body.elems[1]), LabelOf(Body.elems[2]), LabelOf(Body.elems[3])>>
         = << <<"y">>, <<"z">>, <<"x">> >>

\* Position of the first field whose written type is not the first field's.
HasMismatch(d) == \E i \in 2..Len(d.fields) : d.fields[i].ty # d.fields[1].ty

FirstMismatch(d) ==
    CHOOSE i \in 2..Len(d.fields) :
        /\ d.fields[i].ty # d.fields[1].ty
        /\ \A j \in 2..(i - 1) : d.fields[j].ty = d.fields[1].ty

PanickedWith(msg) == pc = "panicked" /\ Len(panic) = 1 /\ panic[1].msg = msg

\* C5: when the fields are not all of one type the invocation panics with the
\* type-mismatch error and the diagnostic identifies the offending field,
\* the first field in declared order whose type differs from the first
\* field's, by its identifier or its position.
C5_DiagnosticCitesField ==
    PanickedWith(MsgNotSameType) =>
        \E a \in Range(panic[1].args) :
            \/ a = IdentTokens(item.fields[FirstMismatch(item)].ident)
            \/ a = <<FirstMismatch(item)>>

\* The kinds of error of the specification's taxonomy, by diagnostic.
KindOf(msg) ==
    CASE msg = MsgNotStruct -> "ShapeError"
      [] msg = MsgUnit -> "UnitShapeError"
      [] msg = MsgNoFields -> "UnitShapeError"
      [] msg = MsgNotSameType -> "HeterogeneousTypeError"
      [] OTHER -> "Unknown"

\* The kind of error the cause of a rejection calls for.
KindFor(d) ==
    IF d.data # "Struct" THEN "ShapeError"
    ELSE IF d.shape = "Unit" \/ Len(d.fields) = 0 THEN "UnitShapeError"
    ELSE IF HasMismatch(d) THEN "HeterogeneousTypeError"
    ELSE "NoError"

\* C6: an invocation that aborts raises exactly one error and returns no
\* fragment, and the error is of the kind of its cause: not a struct gives
\* ShapeError; a struct with no field (unit, or an empty named or unnamed
\* field list) gives the field-less-record error; a struct with fields of
\* differing types gives HeterogeneousTypeError.
C6_ErrorKindMatchesCause ==
    /\ Len(panic) <= 1
    /\ pc = "panicked" =>
          /\ Len(panic) = 1
          /\ output = <<>>
          /\ KindOf(panic[1].msg) = KindFor(item)
    /\ panic # <<>> => pc = "panicked"

\* `Empty {}`: a named struct with an empty field list.
C6_Witness ==
    /\ PanickedWith(MsgNoFields)
    /\ item.shape = "Named"
    /\ item.data = "Struct"
    /\ NumFields = 0

IsPrefix(s, t) == Len(s) <= Len(t) /\ \A i \in 1..Len(s) : s[i] = t[i]

Pipeline == <<"classifier", "checker", "synthesizer">>

\* C8: the stages of an invocation are entered in the order classifier,
\* checker, synthesizer; a declaration that is not a struct has panicked
\* with the shape error once the match on data is past, with no field
\* yielded, compared or taken as candidate; a unit struct never reaches the
\* checker or the synthesizer; a fragment exists only after the checker ran
\* over all the fields of this declaration and returned the first field's type.
C8_StageOrder ==
    pc # "idle" =>
        /\ IsPrefix(stages, Pipeline)
        /\ (item.data # "Struct" /\ pc # "match_data") =>
              /\ PanickedWith(MsgNotStruct)
              /\ stages = <<"classifier">>
              /\ iter = 0 /\ compared = <<>> /\ shared_type = ""
        /\ (item.data = "Struct" /\ item.shape = "Unit") =>
              /\ pc \in {"match_data", "match_fields", "panicked"}
              /\ IsPrefix(stages, <<"classifier">>)
              /\ output = <<>>
        /\ (pc = "quote" \/ output # <<>>) =>
              /\ IsPrefix(<<"classifier", "checker">>, stages)
              /\ iter = NumFields
              /\ NumFields >= 1
              /\ shared_type = item.fields[1].ty
        /\ output # <<>> => stages = Pipeline

\* A union with fields of one type is turned away by the match on data.
C8_Witness ==
    /\ PanickedWith(MsgNotStruct)
    /\ item.data = "Union"
    /\ NumFields = 3
    /\ AllSameType(item)
    /\ stages = <<"classifier">>

\* C9: the scan compares the fields after the first in declared order, each
\* against the first field's type; every comparison but the last one made
\* found equal types; a type-mismatch panic is raised at the first
\* mismatching field with no later field compared; when shared_type is
\* returned every field after the first was compared exactly once.
C9_ScanShortCircuits ==
    pc # "idle" =>
        /\ \A k \in 1..Len(compared) :
              /\ compared[k].field = k + 1
              /\ compared[k].against = item.fields[1].ty
        /\ \A k \in 1..(Len(compared) - 1) :
              item.fields[compared[k].field].ty = item.fields[1].ty
        /\ Len(compared) = (IF iter = 0 THEN 0 ELSE iter - 1)
        /\ PanickedWith(MsgNotSameType) =>
              /\ HasMismatch(item)
              /\ Len(compared) = FirstMismatch(item) - 1
              /\ compared[Len(compared)].field = FirstMismatch(item)
        /\ pc \in {"quote", "returned"} =>
              /\ Len(compared) = NumFields - 1
              /\ ~HasMismatch(item)
              /\ shared_type = item.fields[1].ty

\* The second of three fields differs: the third is never compared.
C9_Witness ==
    /\ PanickedWith(MsgNotSameType)
    /\ NumFields = 3
    /\ item.fields[2].ty # item.fields[1].ty
    /\ item.fields[3].ty = item.fields[2].ty
    /\ Len(compared) = 1

\* C10: an invocation on a declaration ends as an earlier invocation on the
\* same declaration ended, whatever ran in between: same classification,
\* same fragment or same panic; an invocation that has ended has exactly one
\* of a fragment and a panic; and no step of an invocation changes the
\* declaration it was given.
C10_Deterministic ==
    /\ [](Terminal => (Len(output) = 1 /\ panic = <<>>) \/ (Len(panic) = 1 /\ output = <<>>))
    /\ []((Terminal /\ memo # <<>> /\ memo[1].item = item) => Outcome = memo[1].outcome)
    /\ [][(pc # "idle" /\ pc' # "idle") => item' = item]_vars

\* The same declaration has ended a second time, after the remembered run.
C10_Witness ==
    /\ pc = "returned"
    /\ memo # <<>>
    /\ memo[1].item = item
    /\ memo[1].outcome.output = output
    /\ NumFields = 3

====
